---- MODULE Spec2Model ----
(***************************************************************************)
(* A model of e57importer.py: the E57 container facade (class E57), the    *)
(* paged segment reader (class SegmentReader) with its typed subclasses    *)
(* (E57Header, E57CompressedVectorSectionHeader, E57DataPacketHeader,      *)
(* E57IndexPacketHeader) and the bit width helper E57.bitsNeeded.          *)
(*                                                                         *)
(* Numbers.  The source computes with numpy uint64 and float64 scalars.    *)
(* All values of the model are far below 2^53, where both are exact, so    *)
(* the arithmetic is that of the integers, with three numpy rules kept:    *)
(* integer remainder and floor division by zero give 0 (NpMod, NpDiv),     *)
(* and the conversion of a negative float64 to uint64 (astype, np.array    *)
(* with dtype, an assignment into a uint64 array) is undefined in C: the   *)
(* build either wraps it modulo 2^64 or saturates it to 0 (castNeg).       *)
(***************************************************************************)
EXTENDS Integers, Sequences, FiniteSets, TLC

VARIABLES
    PageSize,      \* SegmentReader.PageSize, a class attribute
    PageContent,   \* SegmentReader.PageContent, a class attribute
    E57_DEBUG,     \* the module level flag E57_DEBUG
    castNeg,       \* what the build makes of a negative float64 -> uint64 cast
    e57,           \* the E57 object the caller holds (line 303)
    req,           \* the arguments of the call under study (pure function runs)
    last           \* the last call made and what it did

vars == <<PageSize, PageContent, E57_DEBUG, castNeg, e57, req, last>>

----------------------------------------------------------------------------
(* Program constants *)

E57_PAGE_CRC == 4
E57_STD_PAGE_SIZE == 1024
E57_COMPRESSED_VECTOR_SECTION == 1
E57_INDEX_PACKET == 0
E57_DATA_PACKET == 1

\* dtype.itemsize of the record types declared by the setType methods
ByteItemSize == 1
HeaderItemSize == 48
SectionHeaderItemSize == 32
DataPacketItemSize == 6
IndexPacketItemSize == 16

\* Python's None, as returned by bitsNeeded: no bit count is negative
None == -1

----------------------------------------------------------------------------
(* Bounds of the model *)

\* stands for 2^64 when a negative value wraps; above every length of the model
UintWrap == 1073741824
\* iterations of the "last page too big" loop followed before a run is
\* reported as not returning
MaxSplit == 64
\* raw reads: offsets 0..MaxReqOffset, counts 0..MaxCount, page sizes 5..MaxPageSize
MaxReqOffset == 13
MaxCount == 26
MaxPageSize == 12
\* bitsNeeded: minimum in 0..MaxMinimum, maximum - minimum in 0..MaxRange
MaxMinimum == 2
MaxRange == 300
\* header decoders of the facade: offsets 0..MaxOffset and the record offsets
MaxOffset == 0

----------------------------------------------------------------------------
(* numpy arithmetic *)

\* numpy integer remainder: x % 0 is 0 (with a RuntimeWarning), no exception
NpMod(a, b) == IF b = 0 THEN 0 ELSE a % b

\* numpy integer floor division: x // 0 is 0
NpDiv(a, b) == IF b = 0 THEN 0 ELSE a \div b

\* a float64 result converted to np.uint64
AsUint64(x) == IF x >= 0 THEN x ELSE IF castNeg = "wrap" THEN UintWrap + x ELSE 0

----------------------------------------------------------------------------
(* The files on disk.  A file is its 48 byte header, the offsets of the    *)
(* CompressedVector point streams its metadata names, and its bytes.       *)
(*   1: page size 64, well formed; the byte before its index packet is 30  *)
(*   2: page size 128, well formed; two point streams, the second offset   *)
(*      holds no section header; the byte before its index packet is 0     *)
(*   3: a foreign signature; no section header at the stream offset        *)
(*   4: a physical length that is no multiple of the page size; no data    *)
(*      packet at the data offset                                          *)
(*   5: page size 0                                                        *)
(*   6: page size 8, a metadata blob of 4 bytes                            *)

Files == 1..6

Header(f) ==
    [fileSignature      |-> IF f = 3 THEN "PK-ZIP64" ELSE "ASTM-E57",
     filePhysicalLength |-> IF f = 2 THEN 256 ELSE IF f = 4 THEN 200 ELSE 192,
     xmlPhysicalOffset  |-> 48,
     xmlLogicalLength   |-> IF f = 6 THEN 4 ELSE 20,
     pageSize           |-> IF f = 2 THEN 128 ELSE IF f = 5 THEN 0
                            ELSE IF f = 6 THEN 8 ELSE 64]

\* what E57Header decodes from 48 bytes that are not the file's first 48
GarbledHeader ==
    [fileSignature |-> "garbled", filePhysicalLength |-> 0,
     xmlPhysicalOffset |-> 0, xmlLogicalLength |-> 0, pageSize |-> 0]

\* the number of bytes in the file
FileSize(f) == Header(f).filePhysicalLength

\* the fileOffset attributes of the points elements of type CompressedVector
Points(f) == IF f = 2 THEN <<72, 150>> ELSE <<72>>

\* the positions holding byte 1 and byte 0; every other byte is 2 or more
Ones(f) == IF f = 3 THEN {104} ELSE IF f = 4 THEN {72} ELSE {72, 104}
Zeros(f) == IF f = 2 THEN {111, 112} ELSE IF f = 3 THEN {72, 112}
            ELSE IF f = 4 THEN {104, 112} ELSE {112}

Byte(f, p) ==
    IF p \in Ones(f) THEN 1 ELSE IF p \in Zeros(f) THEN 0
    ELSE 2 + ((7 * p + f) % 250)

\* the uint64 field dataPhysicalOffset of the 32 bytes at offset
DataPhysicalOffset(f, offset) == IF offset = 72 THEN 104 ELSE 0

\* the uint16 field packetLogicalLengthMinus1 of the 6 bytes at offset
PacketLogicalLengthMinus1(f, offset) == IF offset = 104 THEN 7 ELSE 0

\* the offsets the facade's decoders are called with
RecordOffsets == {61, 72, 104, 111, 112}
Offsets == (0..MaxOffset) \cup RecordOffsets

----------------------------------------------------------------------------
(* SegmentReader.__init__: the chunk list.  cls is the class SegmentReader *)
(* as the call finds it: its attributes PageSize and PageContent.          *)

\* the class attributes now
Cls == [PageSize |-> PageSize, PageContent |-> PageContent]

\* lines 163-166: the class attributes after setPageSize(ps); PageContent is
\* a float64 here and may be negative
setPageSize(ps) == [PageSize |-> ps, PageContent |-> ps - E57_PAGE_CRC]

\* line 176: the position the page arithmetic starts from
ReadPosition(offset) == offset

\* lines 179-180: start in page, and the payload left in the first page
FirstChunk(cls, position) ==
    AsUint64(cls.PageContent - NpMod(position, cls.PageSize))

\* lines 181-192: the chunk list before the "last page too big" loop
InitialPages(cls, position, length) ==
    LET first  == FirstChunk(cls, position)
        diff   == AsUint64(length - first)
        n      == NpDiv(diff, cls.PageSize)
        modulo == NpMod(diff, cls.PageSize)
    IN  IF first >= length
        THEN <<length>>
        ELSE <<first>> \o [i \in 1..n |-> AsUint64(cls.PageContent)]
                       \o <<AsUint64(modulo + n * E57_PAGE_CRC)>>

\* line 195: the chunk appended when the last chunk is split
SplitRest(cls, lastpage) ==
    AsUint64(lastpage - cls.PageContent + E57_PAGE_CRC)

\* lines 194-197: the loop, followed for at most fuel iterations
RECURSIVE SplitLoop(_, _, _)
SplitLoop(cls, pages, fuel) ==
    IF pages[Len(pages)] < cls.PageContent
    THEN [pages |-> pages, done |-> TRUE]
    ELSE IF fuel = 0
    THEN [pages |-> pages, done |-> FALSE]
    ELSE SplitLoop(cls,
                   [Append(pages, SplitRest(cls, pages[Len(pages)]))
                        EXCEPT ![Len(pages)] = AsUint64(cls.PageContent)],
                   fuel - 1)

\* lines 182-199: pages, whether the computation returned, and whether the
\* loop was entered (the else branch)
ComputePages(cls, position, length) ==
    LET first == FirstChunk(cls, position)
    IN  IF first >= length
        THEN [pages |-> <<length>>, done |-> TRUE, split |-> FALSE]
        ELSE LET r == SplitLoop(cls, InitialPages(cls, position, length), MaxSplit)
             IN  [pages |-> r.pages, done |-> r.done, split |-> TRUE]

RECURSIVE SumSeq(_)
SumSeq(s) == IF s = <<>> THEN 0 ELSE s[1] + SumSeq(Tail(s))

----------------------------------------------------------------------------
(* SegmentReader.__init__: the physical reads *)

\* a reader that carries on from where the read before it stopped
ReadOffsetCursor(offset) == IF last.op = "read" THEN last.rd.position ELSE offset

\* line 206: where the first physical read starts
ReadOffset(offset) == offset

\* a cursor that does not step over the checksum
NextReadOffsetNoCrc(offset, page) == offset + page

\* lines 214-217: the read cursor after a chunk
NextReadOffset(offset, page) == offset + page + E57_PAGE_CRC

\* lines 207-217: the np.fromfile calls issued, in order; a chunk of 0 bytes
\* issues none and does not move the cursor; with the flag off the body of
\* "if E57_DEBUG:" (the read and the cursor update) is skipped
RECURSIVE IssueReads(_, _, _)
IssueReads(pages, offset, debug) ==
    IF pages = <<>> THEN <<>>
    ELSE IF pages[1] > 0 /\ debug
    THEN <<[offset |-> offset, count |-> pages[1]]>>
             \o IssueReads(Tail(pages), NextReadOffset(offset, pages[1]), debug)
    ELSE IssueReads(Tail(pages), offset, debug)

\* np.fromfile(filename, np.byte, count, offset): the bytes there are
FromFile(f, offset, count) ==
    LET avail == IF offset >= FileSize(f) THEN 0
                 ELSE IF offset + count > FileSize(f) THEN FileSize(f) - offset
                 ELSE count
    IN  [i \in 1..avail |-> Byte(f, offset + i - 1)]

RECURSIVE Content(_, _)
Content(f, reads) ==
    IF reads = <<>> THEN <<>>
    ELSE FromFile(f, reads[1].offset, reads[1].count) \o Content(f, Tail(reads))

\* line 219: np.frombuffer(content, dtype) and the object as __init__
\* leaves it: "hang" when the chunk computation does not return, "error"
\* when np.frombuffer rejects the content (its size is no multiple of the
\* itemsize), else "ok" with items records
FromBuffer(cls, f, offset, count, itemsize, calc, reads, bytes) ==
    [file     |-> f,
     offset   |-> offset,
     count    |-> count,
     length   |-> itemsize * count,
     pageSize |-> cls.PageSize,
     pageContent |-> cls.PageContent,
     pages    |-> calc.pages,
     split    |-> calc.split,
     status   |-> IF ~calc.done THEN "hang"
                  ELSE IF Len(bytes) % itemsize # 0 THEN "error" ELSE "ok",
     position |-> IF calc.split
                  THEN ReadPosition(offset) + itemsize * count
                           + (Len(calc.pages) - 1) * E57_PAGE_CRC
                  ELSE ReadPosition(offset) + itemsize * count,
     reads    |-> reads,
     content  |-> bytes,
     items    |-> Len(bytes) \div itemsize]

\* lines 204-217: the content of the chunks
GetContent(cls, f, offset, count, itemsize, calc, reads) ==
    FromBuffer(cls, f, offset, count, itemsize, calc, reads, Content(f, reads))

\* lines 201-217: the reads of the chunks computed
ReadPages(cls, f, offset, count, itemsize, calc) ==
    GetContent(cls, f, offset, count, itemsize, calc,
               IF calc.done
               THEN IssueReads(calc.pages, ReadOffset(offset), E57_DEBUG)
               ELSE <<>>)

\* lines 168-219: SegmentReader(filename, offset, count) for a dtype of the
\* given itemsize, up to self.validate()
SegmentReader(cls, f, offset, count, itemsize) ==
    ReadPages(cls, f, offset, count, itemsize,
              ComputePages(cls, ReadPosition(offset), itemsize * count))

----------------------------------------------------------------------------
(* E57.bitsNeeded *)

\* mask & state > 0 for the masks of lines 109-121, state >= 0
HasBits32to63(state) == ((state \div 65536) \div 65536) > 0
HasBits16to31(state) == ((state \div 65536) % 65536) > 0
HasBits8to15(state)  == ((state \div 256) % 256) > 0
HasBits4to7(state)   == ((state \div 16) % 16) > 0
HasBits2to3(state)   == ((state \div 4) % 4) > 0
HasBit1(state)       == ((state \div 2) % 2) > 0

\* lines 106-123
bitsNeeded(maximum, minimum) ==
    LET state == maximum - minimum
    IN  IF HasBits32to63(state) THEN 64
        ELSE IF HasBits16to31(state) THEN 32
        ELSE IF HasBits8to15(state) THEN 16
        ELSE IF HasBits4to7(state) THEN 8
        ELSE IF HasBits2to3(state) THEN 4
        ELSE IF HasBit1(state) THEN 2
        ELSE IF HasBit1(state) THEN 1
        ELSE None

----------------------------------------------------------------------------
(* State common to the specifications *)

NoContainer == [open |-> FALSE]
NoReq == [kind |-> "none"]
NoCall == [op |-> "none", status |-> "ok", calls |-> 0]

\* a call that does not return leaves the single threaded program stuck
Running == last.status # "hang"

----------------------------------------------------------------------------
(* Specification SpecReader: SegmentReader as a function of its arguments  *)
(* and of the page geometry setPageSize left in the class, for every page  *)
(* size with PageContent > 0.  A read may be repeated on the same          *)
(* arguments; last.before is what the read before it returned.             *)

MaxCalls == 2

InitReader ==
    /\ PageSize \in (E57_PAGE_CRC + 1)..MaxPageSize
    /\ PageContent = PageSize - E57_PAGE_CRC
    /\ E57_DEBUG \in BOOLEAN
    /\ castNeg \in {"wrap", "sat"}
    /\ e57 = NoContainer
    /\ req \in [kind : {"read"}, file : {1},
                offset : 0..MaxReqOffset, count : 0..MaxCount]
    /\ last = NoCall

\* SegmentReader(filename, offset, count) on the byte dtype
ReadSegment ==
    /\ req.kind = "read"
    /\ Running
    /\ last.calls < MaxCalls
    /\ LET rd == SegmentReader(Cls, req.file, req.offset, req.count, ByteItemSize)
       IN  last' = [op |-> "read", calls |-> last.calls + 1,
                    before |-> IF last.op = "read" THEN last.rd.content ELSE <<>>,
                    status |-> rd.status, rd |-> rd]
    /\ UNCHANGED <<PageSize, PageContent, E57_DEBUG, castNeg, e57, req>>

NextReader == ReadSegment

SpecReader == InitReader /\ [][NextReader]_vars

----------------------------------------------------------------------------
(* Specification SpecBits: bitsNeeded on every pair minimum <= maximum of  *)
(* the bounds, and on the ranges around the 16 and 31 bit limits.          *)

BitsRanges == (0..MaxRange) \cup {65535, 65536, 2147483000}

InitBits ==
    /\ PageSize = E57_STD_PAGE_SIZE
    /\ PageContent = E57_STD_PAGE_SIZE - E57_PAGE_CRC
    /\ E57_DEBUG = TRUE
    /\ castNeg \in {"wrap", "sat"}
    /\ e57 = NoContainer
    /\ req \in {[kind |-> "bits", minimum |-> m, maximum |-> m + r] :
                    m \in 0..MaxMinimum, r \in BitsRanges}
    /\ last = NoCall

CallBitsNeeded ==
    /\ req.kind = "bits"
    /\ last.op = "none"
    /\ last' = [op |-> "bitsNeeded", status |-> "ok", calls |-> 1,
                result |-> bitsNeeded(req.maximum, req.minimum)]
    /\ UNCHANGED <<PageSize, PageContent, E57_DEBUG, castNeg, e57, req>>

NextBits == CallBitsNeeded

SpecBits == InitBits /\ [][NextBits]_vars

----------------------------------------------------------------------------
(* Claims on SegmentReader, under SpecReader *)

ReadDone == last.op = "read"
Returned == ReadDone /\ last.status # "hang"
LastOf(s) == s[Len(s)]

\* C1: for every request and every page size above 4, the payload lengths of
\* the chunk list (after the last chunk correction and the split loop) sum
\* to exactly the logical length itemsize * count.
C1_ChunksSumToLength ==
    Returned => SumSeq(last.rd.pages) = last.rd.length

\* C9: for every request and every page size above 4 the chunk computation
\* returns, and when the split loop was entered it ends with a last chunk
\* smaller than PageContent.
C9_SplitLoopTerminates ==
    ReadDone =>
        /\ last.status # "hang"
        /\ last.rd.split => LastOf(last.rd.pages) < last.rd.pageContent

\* the request starts in the payload area of a page and the page size is
\* above 8
C8_InScope ==
    /\ ReadDone
    /\ last.rd.pageSize > 8
    /\ NpMod(last.rd.offset, last.rd.pageSize) < last.rd.pageContent

\* C8: for such a request every physical read lies inside the payload area
\* of one page, the first read starts at the request offset, every later
\* read starts at a page start, 4 bytes after the end of the read before it
\* (so the offsets strictly increase), and every byte returned is a byte of
\* one of these reads, in order.
C8_ReadsStayInPayload ==
    C8_InScope =>
        LET r == last.rd.reads
        IN  /\ \A i \in 1..Len(r) :
                 /\ r[i].count > 0
                 /\ NpMod(r[i].offset, last.rd.pageSize) + r[i].count
                        <= last.rd.pageContent
            /\ r # <<>> => r[1].offset = last.rd.offset
            /\ \A i \in 2..Len(r) :
                 /\ r[i].offset = r[i-1].offset + r[i-1].count + E57_PAGE_CRC
                 /\ NpMod(r[i].offset, last.rd.pageSize) = 0
                 /\ r[i].offset > r[i-1].offset
            /\ Len(last.rd.content) = SumSeq([i \in 1..Len(r) |-> r[i].count])

\* a read of three chunks or more that began inside a page
C8_Witness ==
    /\ C8_InScope
    /\ Len(last.rd.reads) >= 3
    /\ NpMod(last.rd.offset, last.rd.pageSize) > 0

\* C10: the reads issued and the bytes returned are those of a run with
\* E57_DEBUG = True, whatever the flag is.
C10_DebugFlagIrrelevant ==
    Returned =>
        /\ last.rd.reads = IssueReads(last.rd.pages, last.rd.offset, TRUE)
        /\ last.rd.content = Content(last.rd.file, IssueReads(last.rd.pages, last.rd.offset, TRUE))

----------------------------------------------------------------------------
(* Claims on bitsNeeded, under SpecBits *)

RECURSIVE Pow2(_)
Pow2(b) == IF b = 0 THEN 1 ELSE 2 * Pow2(b - 1)

\* 2^bits > range, for a range below 2^31
Exceeds(bits, range) == bits > 30 \/ Pow2(bits) > range

\* C2: bitsNeeded(maximum, minimum) is the smallest non-negative bits with
\* 2^bits > maximum - minimum: 0 for minimum = maximum, 8 for 0..255, 9 for
\* 0..256.
C2_SmallestBitWidth ==
    last.op = "bitsNeeded" =>
        LET range == req.maximum - req.minimum
        IN  /\ last.result \in 0..64
            /\ Exceeds(last.result, range)
            /\ \A b \in 0..(last.result - 1) : ~Exceeds(b, range)

----------------------------------------------------------------------------
(* The typed readers and their validate methods *)

\* dtype.itemsize of the three record types
ItemSize(kind) ==
    IF kind = "section" THEN SectionHeaderItemSize
    ELSE IF kind = "data" THEN DataPacketItemSize ELSE IndexPacketItemSize

\* the literal each validate method compares the first field with
ExpectedTag(kind) ==
    IF kind = "section" THEN E57_COMPRESSED_VECTOR_SECTION
    ELSE IF kind = "data" THEN E57_DATA_PACKET ELSE E57_INDEX_PACKET

\* lines 264-267, 277-280, 292-295: whether validate returns (else it raises)
validate(kind, tag) == tag = ExpectedTag(kind)

\* E57CompressedVectorSectionHeader / E57DataPacketHeader /
\* E57IndexPacketHeader (filename, offset): the read, then validate, which
\* takes self[field] = result[field][0]: the first byte read, an IndexError
\* when nothing was read.  The other fields are those stored at the offset.
Validated(kind, rd) ==
    LET tag == IF rd.items > 0 THEN rd.content[1] ELSE None
    IN  [kind     |-> kind,
         file     |-> rd.file,
         offset   |-> rd.offset,
         pageSize |-> rd.pageSize,
         reads    |-> rd.reads,
         tag      |-> tag,
         dataPhysicalOffset |-> DataPhysicalOffset(rd.file, rd.offset),
         packetLogicalLengthMinus1 |->
             PacketLogicalLengthMinus1(rd.file, rd.offset),
         status   |-> IF rd.status # "ok" THEN rd.status
                      ELSE IF rd.items = 0 THEN "error"
                      ELSE IF validate(kind, tag) THEN "ok" ELSE "error"]

Decode(cls, f, kind, offset) ==
    Validated(kind, SegmentReader(cls, f, offset, 1, ItemSize(kind)))

\* lines 144-145: where extractCompressedVector looks for the index packet
IndexPacketOffset(dataPhysicalOffset, packetLogicalLengthMinus1) ==
    dataPhysicalOffset + packetLogicalLengthMinus1

\* lines 127-146: the headers read for the point streams, in order; an
\* exception ends the loop and the call
RECURSIVE ResolveStreams(_, _, _)

\* line 146 and the next turn of the loop
ResolveIndex(cls, f, points, cv, dh, idx) ==
    IF idx.status # "ok" THEN <<cv, dh, idx>>
    ELSE <<cv, dh, idx>> \o ResolveStreams(cls, f, Tail(points))

\* lines 142-146
ResolveData(cls, f, points, cv, dh) ==
    IF dh.status # "ok" THEN <<cv, dh>>
    ELSE ResolveIndex(cls, f, points, cv, dh,
                      Decode(cls, f, "index",
                             IndexPacketOffset(cv.dataPhysicalOffset,
                                               dh.packetLogicalLengthMinus1)))

\* lines 141-142
ResolveSection(cls, f, points, cv) ==
    IF cv.status # "ok" THEN <<cv>>
    ELSE ResolveData(cls, f, points, cv,
                     Decode(cls, f, "data", cv.dataPhysicalOffset))

ResolveStreams(cls, f, points) ==
    IF points = <<>> THEN <<>>
    ELSE ResolveSection(cls, f, points, Decode(cls, f, "section", points[1]))

----------------------------------------------------------------------------
(* Specification Spec: the facade.  A caller opens files, keeps one of the *)
(* objects in e57 (keep) and calls its methods; what it does with another  *)
(* object it opened is not followed.  The metadata document itself is      *)
(* outside the model: whether the text read parses is an input of Open,    *)
(* and the point streams it names are Points(f).                           *)

Init ==
    /\ PageSize = E57_STD_PAGE_SIZE
    /\ PageContent = E57_STD_PAGE_SIZE - E57_PAGE_CRC
    /\ E57_DEBUG = TRUE
    /\ castNeg \in {"wrap", "sat"}
    /\ e57 = NoContainer
    /\ req = NoReq
    /\ last = NoCall

\* the call as last records it
OpenCall(keep, f, checkfile, header) ==
    [op |-> "open", keep |-> keep, file |-> f, checkfile |-> checkfile,
     header |-> header]

\* lines 81-85 after lines 76-79: the metadata text xr read is parsed (or
\* not: parsed), and __init__ returns the object
buildRoot(keep, f, checkfile, header, xr, parsed) ==
    /\ last' = OpenCall(keep, f, checkfile, header) @@
                  [status |-> IF xr.status = "hang" THEN "hang"
                              ELSE IF xr.content # <<>> /\ parsed THEN "ok"
                              ELSE "error",
                   decoded |-> TRUE, xmlIssued |-> TRUE,
                   created |-> xr.status = "ok" /\ xr.content # <<>> /\ parsed,
                   rd |-> xr]
    /\ e57' = IF xr.status = "ok" /\ xr.content # <<>> /\ parsed
                 /\ keep
              THEN [open |-> TRUE, filename |-> f, checkfile |-> checkfile,
                    fileSignature |-> header.fileSignature,
                    filePhysicalLength |-> header.filePhysicalLength,
                    xmlPhysicalOffset |-> header.xmlPhysicalOffset,
                    xmlLogicalLength |-> header.xmlLogicalLength,
                    pageSize |-> header.pageSize,
                    pageContent |-> AsUint64(header.pageSize - E57_PAGE_CRC)]
              ELSE e57

\* lines 68-74: the checks of readHeader; TRUE when one raises
CheckFails(checkfile, header) ==
    /\ checkfile
    /\ \/ header.fileSignature # "ASTM-E57"
       \/ NpMod(header.filePhysicalLength, header.pageSize) # 0

\* lines 55-74, then line 51: the header decoded, the class geometry set,
\* the checks, the metadata read
HeaderDecoded(keep, f, checkfile, header) ==
    /\ PageSize' = setPageSize(header.pageSize).PageSize
    /\ PageContent' = setPageSize(header.pageSize).PageContent
    /\ \/ /\ CheckFails(checkfile, header)
          /\ last' = OpenCall(keep, f, checkfile, header) @@
                        [status |-> "error", decoded |-> TRUE,
                         xmlIssued |-> FALSE, created |-> FALSE]
          /\ UNCHANGED e57
       \/ /\ ~CheckFails(checkfile, header)
          /\ \E parsed \in BOOLEAN :
                buildRoot(keep, f, checkfile, header,
                          SegmentReader(setPageSize(header.pageSize), f,
                                        header.xmlPhysicalOffset,
                                        header.xmlLogicalLength, ByteItemSize),
                          parsed)

\* lines 53-54: header = E57Header(self.filename) gave hr; header[...] is an
\* IndexError when nothing was read
readHeader(keep, f, checkfile, hr) ==
    \/ /\ ~(hr.status = "ok" /\ hr.items > 0)
       /\ last' = OpenCall(keep, f, checkfile, GarbledHeader) @@
                     [status |-> IF hr.status = "hang" THEN "hang" ELSE "error",
                      decoded |-> FALSE, xmlIssued |-> FALSE,
                      created |-> FALSE]
       /\ UNCHANGED <<PageSize, PageContent, e57>>
    \/ /\ hr.status = "ok" /\ hr.items > 0
       /\ HeaderDecoded(keep, f, checkfile,
                        IF hr.reads = <<[offset |-> 0, count |-> HeaderItemSize]>>
                        THEN Header(f) ELSE GarbledHeader)

\* lines 47-51: E57(filename, checkfile), assigned to e57 when keep
Open(keep, f, checkfile) ==
    /\ Running
    /\ readHeader(keep, f, checkfile, SegmentReader(Cls, f, 0, 1, HeaderItemSize))
    /\ UNCHANGED <<E57_DEBUG, castNeg, req>>

\* lines 76-79: e57.extractXML()
extractXML ==
    /\ Running
    /\ e57.open
    /\ LET rd == SegmentReader(Cls, e57.filename, e57.xmlPhysicalOffset,
                               e57.xmlLogicalLength, ByteItemSize)
       IN  last' = [op |-> "extractXML", status |-> rd.status, rd |-> rd]
    /\ UNCHANGED <<PageSize, PageContent, E57_DEBUG, castNeg, e57, req>>

\* a call of one of the three header methods of e57
ReadHeaderAt(kind, offset) ==
    /\ Running
    /\ e57.open
    /\ LET dec == Decode(Cls, e57.filename, kind, offset)
       IN  last' = [op |-> "readHeader", status |-> dec.status, dec |-> dec]
    /\ UNCHANGED <<PageSize, PageContent, E57_DEBUG, castNeg, e57, req>>

\* lines 97-98
readCompressedVectorSectionHeader(offset) == ReadHeaderAt("section", offset)

\* lines 100-101
readDataPacketHeader(offset) == ReadHeaderAt("data", offset)

\* lines 103-104
readIndexPacketHeader(offset) == ReadHeaderAt("index", offset)

\* lines 125-155: e57.extractCompressedVector()
extractCompressedVector ==
    /\ Running
    /\ e57.open
    /\ LET trace == ResolveStreams(Cls, e57.filename, Points(e57.filename))
       IN  last' = [op |-> "extractCompressedVector",
                    status |-> IF trace = <<>> THEN "ok"
                               ELSE trace[Len(trace)].status,
                    trace |-> trace]
    /\ UNCHANGED <<PageSize, PageContent, E57_DEBUG, castNeg, e57, req>>

Next ==
    \/ \E keep \in BOOLEAN, f \in Files, checkfile \in BOOLEAN :
            Open(keep, f, checkfile)
    \/ extractXML
    \/ \E offset \in Offsets : readCompressedVectorSectionHeader(offset)
    \/ \E offset \in Offsets : readDataPacketHeader(offset)
    \/ \E offset \in Offsets : readIndexPacketHeader(offset)
    \/ extractCompressedVector

Spec == Init /\ [][Next]_vars


----------------------------------------------------------------------------
(* Claims on the facade, under Spec *)

\* a is a multiple of b
IsMultiple(a, b) == \E k \in 0..a : a = k * b

OpenDone == last.op = "open"

\* C3: with checkfile = True, opening a file whose signature is not
\* 'ASTM-E57', or whose filePhysicalLength is no multiple of its pageSize,
\* ends with an error: no object is produced and the metadata read is not
\* issued.
C3_ValidationRejects ==
    (/\ OpenDone
     /\ last.checkfile
     /\ \/ Header(last.file).fileSignature # "ASTM-E57"
        \/ ~IsMultiple(Header(last.file).filePhysicalLength,
                       Header(last.file).pageSize))
    => (last.status = "error" /\ ~last.created /\ ~last.xmlIssued)

HeaderReadDone == last.op = "readHeader"

\* what holds of the checks of readHeader: once the header is decoded, a
\* foreign signature, or a physical length whose numpy remainder by the
\* page size is not 0, ends the call before the metadata read
ValidationRejectsDecoded ==
    (/\ OpenDone
     /\ last.checkfile
     /\ last.decoded
     /\ \/ last.header.fileSignature # "ASTM-E57"
        \/ NpMod(last.header.filePhysicalLength, last.header.pageSize) # 0)
    => (last.status = "error" /\ ~last.created /\ ~last.xmlIssued)

\* C4: a header method called at an offset whose byte is not the tag its
\* validate expects raises an error and returns no record, at every offset
\* and whatever checkfile the object was opened with.
C4_TagAlwaysEnforced ==
    (/\ HeaderReadDone
     /\ Byte(last.dec.file, last.dec.offset) # ExpectedTag(last.dec.kind))
    => last.status = "error"

\* what holds of the validate methods: no record is returned for a byte that
\* is not the tag, and an error is raised whenever the read returns
TagEnforcedWhenReturned ==
    (/\ HeaderReadDone
     /\ Byte(last.dec.file, last.dec.offset) # ExpectedTag(last.dec.kind))
    => (last.status # "ok" /\ (last.dec.pageSize > 8 => last.status = "error"))

\* C5: every read made for the object e57 computes its chunks with the page
\* size of that object's own header, whatever was opened since.
C5_OwnPageGeometry ==
    /\ last.op = "extractXML" => last.rd.pageSize = e57.pageSize
    /\ HeaderReadDone => last.dec.pageSize = e57.pageSize
    /\ last.op = "extractCompressedVector" =>
          \A i \in 1..Len(last.trace) : last.trace[i].pageSize = e57.pageSize

\* C7: extractCompressedVector reads, for each point stream in turn, the
\* section header at the stream's fileOffset, then the data packet header at
\* that section's dataPhysicalOffset, then the index packet header at
\* dataPhysicalOffset + (packetLogicalLengthMinus1 + 1); a header that does
\* not validate is the last one read.
C7_HeaderOrder ==
    last.op = "extractCompressedVector" =>
        LET t == last.trace
        IN  \A i \in 1..Len(t) :
              /\ i < Len(t) => t[i].status = "ok"
              /\ (i - 1) % 3 = 0 =>
                    /\ t[i].kind = "section"
                    /\ t[i].offset = Points(e57.filename)[((i - 1) \div 3) + 1]
              /\ (i - 1) % 3 = 1 =>
                    /\ t[i].kind = "data"
                    /\ t[i].offset = t[i-1].dataPhysicalOffset
              /\ (i - 1) % 3 = 2 =>
                    /\ t[i].kind = "index"
                    /\ t[i].offset = t[i-2].dataPhysicalOffset
                                       + (t[i-1].packetLogicalLengthMinus1 + 1)

====
